---- MODULE Spec2Model ----
(***************************************************************************)
(* The trigger-to-message pipeline of the CRM: the Trigger Processor       *)
(* (SchedulerService.runMessageBrain), the Event Scanner                   *)
(* (GoogleNewsService), the Mailer (EmailService), the storage gateway     *)
(* (DatabaseStorage) and the REST handlers that write trigger and message  *)
(* status.  Every async function is cut at its awaits that touch the       *)
(* store: one action per storage call, so that overlapping runs interleave *)
(* exactly where the event loop lets them.                                 *)
(***************************************************************************)
EXTENDS Integers, Sequences, FiniteSets, TLC

VARIABLES
  people,        \* people table: id -> [email, linkedin, twitter]
  triggers,      \* triggers table in creation order (id = index)
  messages,      \* messages table in creation order (id = index)
  clock,         \* wall clock read by defaultNow() and new Date()
  brainPc,       \* per Trigger Processor run: position in runMessageBrain
  brainList,     \* per run: newTriggers, the list fetched at line 75
  brainIdx,      \* per run: index of the loop at line 78
  brainDraft,    \* per run: messageDraft of the current iteration
  brainAddr,     \* per run: address of the current iteration
  runsLeft,      \* number of runs the scheduler and the admin still start
  answers,       \* the JSON answers the language model gives in this behaviour
  genCalls,      \* history: trigger ids generateMessage was called for
  genRaw,        \* history: per trigger, the last JSON the model returned
  outcome,       \* history: per trigger, how its last iteration ended
  faults,        \* number of storage / external-service calls that have thrown
  mailPc,        \* per Mailer run: position in sendPendingEmails / sendEmail
  mailList,      \* per Mailer run: emailMessages, the list fetched at line 126
  mailIdx,       \* per Mailer run: index of the loop at line 131
  mailRunsLeft,  \* number of emailSender runs still to start
  delivered,     \* history: message ids the mail transport accepted, in order
  thrown,        \* history: message ids whose sendMail call threw, in order
  bulkList,      \* send-drafts request in flight: draftMessages, or <<Null>> if none
  news,          \* the external search service: query -> the hits it returns
  scanPc,        \* per scan (accounts, people): position in scanAccountNews / scanPeopleNews
  scanList,      \* per scan: the accounts / people fetched at lines 67, 114
  scanSubj,      \* per scan: index of the loop at lines 69, 116
  scanQuery,     \* per scan: index of the loop at line 127 (1 for accounts)
  scanHits,      \* per scan: newsResults of the current query
  scanHit,       \* per scan: index of the loop at lines 74, 130
  scansLeft,     \* number of full scans still to start
  cronTasks,     \* every cron task created so far: [name, running], in creation order
  jobs,          \* SchedulerService.jobs: job name -> index of its task, Null if unset
  fired,         \* history: per job, bodies invoked at its last tick since the last start/stop
  stopped,       \* history: the last call on the scheduler was stop()
  schedCalls,    \* number of start() and stop() calls made
  bdayPc,        \* per run: control point of scanBirthdays
  bdayList,      \* per run: people as fetched at line 180
  bdayIdx,       \* per run: index of the loop at line 182
  bdayRunsLeft   \* number of scanBirthdays runs still to start

brainVars == <<brainPc, brainList, brainIdx, brainDraft, brainAddr, runsLeft>>
histVars == <<genCalls, genRaw, outcome>>
mailVars == <<mailPc, mailList, mailIdx, mailRunsLeft, delivered, thrown, bulkList>>
scanVars == <<news, scanPc, scanList, scanSubj, scanQuery, scanHits, scanHit, scansLeft>>
schedVars == <<cronTasks, jobs, fired, stopped, schedCalls>>
bdayVars == <<bdayPc, bdayList, bdayIdx, bdayRunsLeft>>
vars == <<people, triggers, messages, clock, answers, brainVars, histVars, faults, mailVars,
          scanVars, schedVars, bdayVars>>

---------------------------------------------------------------------------
(* Bounds of the model *)

MaxTriggers == 2
MaxRuns == 2
MaxFaults == 1
MaxMessages == 2
MaxScans == 2
MaxCalls == 3

---------------------------------------------------------------------------
(* Values *)

\* A null foreign key / null timestamp (serial ids and the clock start at 1).
Null == 0

People == {1, 2}
Runs == {1, 2}

Min(a, b) == IF a < b THEN a ELSE b

\* the elements of a sequence
Range(seq) == { seq[k] : k \in 1..Len(seq) }

\* The contact strings a person can have on file; "" is JS-falsy like null.
EmailOf(p) == IF p = 1 THEN "jane@x.com" ELSE "joe@y.com"
LinkedinOf(p) == IF p = 1 THEN "in/jane" ELSE "in/joe"
TwitterOf(p) == IF p = 1 THEN "@jane" ELSE "@joe"

Profiles(p) ==
  [email : {"", EmailOf(p)}, linkedin : {"", LinkedinOf(p)}, twitter : {"", TwitterOf(p)}]

\* The people tables of the model: every combination of channels for person 1,
\* person 2 with every channel on file.
PeopleTables ==
  { [p \in People |->
       IF p = 1 THEN prof
       ELSE [email |-> EmailOf(p), linkedin |-> LinkedinOf(p), twitter |-> TwitterOf(p)]] :
    prof \in Profiles(1) }

\* The people of the scenarios: Jane with only her email on file or with no
\* channel at all.
ScenarioTables ==
  { tb \in PeopleTables : tb[1].linkedin = "" /\ tb[1].twitter = "" }

\* The person of a left join on a null person_id.
NoPerson == [email |-> "", linkedin |-> "", twitter |-> ""]

\* What the language model's JSON can hold ("" is a missing field).
GenAnswers ==
  { [media |-> m, subject |-> "S", content |-> "C"] :
      m \in {"email", "Email", "linkedin", "twitter", "phone"} }
  \cup { [media |-> "", subject |-> "", content |-> ""] }

CoreAnswers == { a \in GenAnswers : a.media \in {"email", "linkedin"} }

NoDraft == [media |-> "", subject |-> "", content |-> "", tone |-> ""]

---------------------------------------------------------------------------
(* Storage gateway *)

RECURSIVE TriggersDesc(_, _)
\* ids of the first n triggers with the given status ("" = any), newest first
TriggersDesc(n, status) ==
  IF n = 0 THEN <<>>
  ELSE (IF status = "" \/ triggers[n].status = status THEN <<n>> ELSE <<>>)
         \o TriggersDesc(n - 1, status)

getTriggers(limit, offset, status) ==
  LET all == TriggersDesc(Len(triggers), status)
      rest == SubSeq(all, offset + 1, Len(all))
  IN  SubSeq(rest, 1, Min(limit, Len(rest)))

getTriggersByStatus(status) == getTriggers(1000, 0, status)

updateTrigger(id, status) == [triggers EXCEPT ![id].status = status]

createMessage(m) ==
  Append(messages,
         [id |-> Len(messages) + 1,
          conversationId |-> m.conversationId,
          personId |-> m.personId,
          triggerId |-> m.triggerId,
          media |-> m.media,
          address |-> m.address,
          from |-> m.from,
          subject |-> m.subject,
          content |-> m.content,
          status |-> m.status,
          sentAt |-> Null,
          createdAt |-> clock])

---------------------------------------------------------------------------
(* Outreach Generator *)

\* String.prototype.toLowerCase on the media strings of the model
toLowerCase(s) ==
  CASE s = "Email" -> "email"
    [] OTHER -> s

\* JS a || b on strings
Or(a, b) == IF a # "" THEN a ELSE b

generateMessage(raw, trigger) ==
  [subject |-> Or(raw.subject, "Following up on " \o trigger.triggerType),
   content |-> Or(raw.content, "Hello, I wanted to reach out regarding recent developments."),
   tone |-> "professional",
   media |-> Or(raw.media, "email")]

---------------------------------------------------------------------------
(* Trigger Processor: SchedulerService.runMessageBrain *)

CurTrigger(r) == brainList[r][brainIdx[r]]

InLoop(r) == brainPc[r] = "loop" /\ brainIdx[r] <= Len(brainList[r])

\* the joined person row of a trigger
PersonOf(t) ==
  IF triggers[t].personId = Null THEN NoPerson ELSE people[triggers[t].personId]

\* the guard of line 81 dropped: every trigger is taken for person-scoped
HasPersonAlways(t) == TRUE

\* line 81: !(!trigger.personId || !trigger.person)
HasPerson(t) == triggers[t].personId # Null

\* lines 92-106 with every case falling back to any channel on file
ResolveAddressAnyChannel(media, person) ==
  Or(person.email, Or(person.linkedin, Or(person.twitter, "")))

\* lines 92-106 with the email and linkedin cases swapped
ResolveAddressSwapped(media, person) ==
  CASE toLowerCase(media) = "email" -> Or(person.linkedin, "")
    [] toLowerCase(media) = "linkedin" -> Or(person.email, "")
    [] toLowerCase(media) = "twitter" -> Or(person.twitter, "")
    [] OTHER -> Or(person.email, Or(person.linkedin, ""))

\* lines 92-106
ResolveAddress(media, person) ==
  CASE toLowerCase(media) = "email" -> Or(person.email, "")
    [] toLowerCase(media) = "linkedin" -> Or(person.linkedin, "")
    [] toLowerCase(media) = "twitter" -> Or(person.twitter, "")
    [] OTHER -> Or(person.email, Or(person.linkedin, ""))

\* lines 114-124
DraftMessage(t, draft, address) ==
  [conversationId |-> Null,
   personId |-> triggers[t].personId,
   triggerId |-> t,
   media |-> draft.media,
   address |-> address,
   from |-> "us",
   subject |-> draft.subject,
   content |-> draft.content,
   status |-> "draft"]

\* continue / end of the try block: on to the next trigger of the list
NextTrigger(r) ==
  /\ brainIdx' = [brainIdx EXCEPT ![r] = @ + 1]
  /\ brainPc' = [brainPc EXCEPT ![r] = "loop"]
  /\ brainDraft' = [brainDraft EXCEPT ![r] = NoDraft]
  /\ brainAddr' = [brainAddr EXCEPT ![r] = ""]

\* line 75 succeeds
BrainFetch(r) ==
  /\ brainPc[r] = "idle"
  /\ runsLeft > 0
  /\ runsLeft' = runsLeft - 1
  /\ brainList' = [brainList EXCEPT ![r] = getTriggersByStatus("new")]
  /\ brainIdx' = [brainIdx EXCEPT ![r] = 1]
  /\ brainPc' = [brainPc EXCEPT ![r] = "loop"]
  /\ UNCHANGED <<bdayVars, schedVars, scanVars, mailVars, faults, answers, people, triggers, messages, clock, brainDraft, brainAddr, histVars>>

\* line 75 throws: the outer catch at line 137 ends the run
BrainFetchFail(r) ==
  /\ faults < MaxFaults
  /\ faults' = faults + 1
  /\ brainPc[r] = "idle"
  /\ runsLeft > 0
  /\ runsLeft' = runsLeft - 1
  /\ UNCHANGED <<bdayVars, schedVars, scanVars, mailVars, answers, people, triggers, messages, clock, brainPc, brainList, brainIdx,
                 brainDraft, brainAddr, histVars>>

\* lines 81-84: an account-level trigger is skipped
BrainSkip(r) ==
  /\ InLoop(r)
  /\ ~HasPerson(CurTrigger(r))
  /\ outcome' = [outcome EXCEPT ![CurTrigger(r)] = "skipped"]
  /\ NextTrigger(r)
  /\ UNCHANGED <<bdayVars, schedVars, scanVars, mailVars, faults, answers, people, triggers, messages, clock, brainList, runsLeft,
                 genCalls, genRaw>>

\* line 89 throws (openai.ts 99-102): caught at line 131
BrainGenerateFail(r) ==
  /\ faults < MaxFaults
  /\ faults' = faults + 1
  /\ InLoop(r)
  /\ HasPerson(CurTrigger(r))
  /\ genCalls' = genCalls \cup {CurTrigger(r)}
  /\ outcome' = [outcome EXCEPT ![CurTrigger(r)] = "gen_failed"]
  /\ NextTrigger(r)
  /\ UNCHANGED <<bdayVars, schedVars, scanVars, mailVars, answers, people, triggers, messages, clock, brainList, runsLeft, genRaw>>

\* lines 89-111: the draft comes back and the address is resolved
BrainGenerate(r) ==
  /\ InLoop(r)
  /\ HasPerson(CurTrigger(r))
  /\ \E raw \in answers :
       LET t == CurTrigger(r)
           draft == generateMessage(raw, triggers[t])
           address == ResolveAddress(draft.media, PersonOf(t))
       IN  /\ genCalls' = genCalls \cup {t}
           /\ genRaw' = [genRaw EXCEPT ![t] = raw]
           /\ IF address = ""
                THEN /\ outcome' = [outcome EXCEPT ![t] = "no_address"]
                     /\ NextTrigger(r)
                ELSE /\ outcome' = [outcome EXCEPT ![t] = "drafting"]
                     /\ brainDraft' = [brainDraft EXCEPT ![r] = draft]
                     /\ brainAddr' = [brainAddr EXCEPT ![r] = address]
                     /\ brainPc' = [brainPc EXCEPT ![r] = "create"]
                     /\ UNCHANGED brainIdx
  /\ UNCHANGED <<bdayVars, schedVars, scanVars, mailVars, faults, answers, people, triggers, messages, clock, brainList, runsLeft>>

\* lines 114-124 succeed
BrainCreate(r) ==
  /\ brainPc[r] = "create"
  /\ messages' = createMessage(DraftMessage(CurTrigger(r), brainDraft[r], brainAddr[r]))
  /\ clock' = clock + 1
  /\ brainPc' = [brainPc EXCEPT ![r] = "update"]
  /\ UNCHANGED <<bdayVars, schedVars, scanVars, mailVars, faults, answers, people, triggers, brainList, brainIdx, brainDraft, brainAddr,
                 runsLeft, histVars>>

\* line 114 throws and the error ends the run instead of the iteration
BrainCreateFailAborts(r) ==
  /\ faults < MaxFaults
  /\ faults' = faults + 1
  /\ brainPc[r] = "create"
  /\ outcome' = [outcome EXCEPT ![CurTrigger(r)] = "create_failed"]
  /\ brainPc' = [brainPc EXCEPT ![r] = "idle"]
  /\ brainList' = [brainList EXCEPT ![r] = <<>>]
  /\ brainIdx' = [brainIdx EXCEPT ![r] = 0]
  /\ brainDraft' = [brainDraft EXCEPT ![r] = NoDraft]
  /\ brainAddr' = [brainAddr EXCEPT ![r] = ""]
  /\ UNCHANGED <<bdayVars, schedVars, scanVars, mailVars, answers, people, triggers, messages, clock, runsLeft,
                 genCalls, genRaw>>

\* line 114 throws: caught at line 131
BrainCreateFail(r) ==
  /\ faults < MaxFaults
  /\ faults' = faults + 1
  /\ brainPc[r] = "create"
  /\ outcome' = [outcome EXCEPT ![CurTrigger(r)] = "create_failed"]
  /\ NextTrigger(r)
  /\ UNCHANGED <<bdayVars, schedVars, scanVars, mailVars, answers, people, triggers, messages, clock, brainList, runsLeft,
                 genCalls, genRaw>>

\* line 127 succeeds
BrainUpdate(r) ==
  /\ brainPc[r] = "update"
  /\ triggers' = updateTrigger(CurTrigger(r), "handled")
  /\ outcome' = [outcome EXCEPT ![CurTrigger(r)] = "ok"]
  /\ NextTrigger(r)
  /\ UNCHANGED <<bdayVars, schedVars, scanVars, mailVars, faults, answers, people, messages, clock, brainList, runsLeft, genCalls, genRaw>>

\* line 127 throws: caught at line 131, the message stays
BrainUpdateFail(r) ==
  /\ faults < MaxFaults
  /\ faults' = faults + 1
  /\ brainPc[r] = "update"
  /\ outcome' = [outcome EXCEPT ![CurTrigger(r)] = "update_failed"]
  /\ NextTrigger(r)
  /\ UNCHANGED <<bdayVars, schedVars, scanVars, mailVars, answers, people, triggers, messages, clock, brainList, runsLeft,
                 genCalls, genRaw>>

\* line 136: the loop is over
BrainDone(r) ==
  /\ brainPc[r] = "loop"
  /\ brainIdx[r] > Len(brainList[r])
  /\ brainPc' = [brainPc EXCEPT ![r] = "idle"]
  /\ brainList' = [brainList EXCEPT ![r] = <<>>]
  /\ brainIdx' = [brainIdx EXCEPT ![r] = 0]
  /\ UNCHANGED <<bdayVars, schedVars, scanVars, mailVars, faults, answers, people, triggers, messages, clock, brainDraft, brainAddr,
                 runsLeft, histVars>>

\* runTriggersScanner, lines 158-165: a pass that looks for leftover new
\* triggers and, when there are any, calls runMessageBrain
TriggersScanner(r) ==
  /\ brainPc[r] = "idle"
  /\ runsLeft > 0
  /\ runsLeft' = runsLeft - 1
  /\ brainPc' = [brainPc EXCEPT ![r] =
                   IF Len(getTriggersByStatus("new")) > 0 THEN "rescan" ELSE "idle"]
  /\ UNCHANGED <<bdayVars, schedVars, scanVars, mailVars, faults, answers, people, triggers, messages, clock, brainList, brainIdx,
                 brainDraft, brainAddr, histVars>>

\* line 158 throws: the catch at line 168 ends the pass
TriggersScannerFail(r) ==
  /\ faults < MaxFaults
  /\ faults' = faults + 1
  /\ brainPc[r] = "idle"
  /\ runsLeft > 0
  /\ runsLeft' = runsLeft - 1
  /\ UNCHANGED <<bdayVars, schedVars, scanVars, mailVars, answers, people, triggers, messages, clock, brainPc, brainList, brainIdx,
                 brainDraft, brainAddr, histVars>>

\* line 162 -> line 75 succeeds
BrainFetchAgain(r) ==
  /\ brainPc[r] = "rescan"
  /\ brainList' = [brainList EXCEPT ![r] = getTriggersByStatus("new")]
  /\ brainIdx' = [brainIdx EXCEPT ![r] = 1]
  /\ brainPc' = [brainPc EXCEPT ![r] = "loop"]
  /\ UNCHANGED <<bdayVars, schedVars, scanVars, mailVars, faults, answers, people, triggers, messages, clock, brainDraft, brainAddr,
                 runsLeft, histVars>>

\* line 162 -> line 75 throws: caught at line 137 inside runMessageBrain
BrainFetchAgainFail(r) ==
  /\ faults < MaxFaults
  /\ faults' = faults + 1
  /\ brainPc[r] = "rescan"
  /\ brainPc' = [brainPc EXCEPT ![r] = "idle"]
  /\ UNCHANGED <<bdayVars, schedVars, scanVars, mailVars, answers, people, triggers, messages, clock, brainList, brainIdx,
                 brainDraft, brainAddr, runsLeft, histVars>>

---------------------------------------------------------------------------
(* Storage gateway: messages *)

RECURSIVE MessagesDesc(_, _)
\* ids of the first n messages with the given status ("" = any), newest first
MessagesDesc(n, status) ==
  IF n = 0 THEN <<>>
  ELSE (IF status = "" \/ messages[n].status = status THEN <<n>> ELSE <<>>)
         \o MessagesDesc(n - 1, status)

getMessages(limit, offset, status) ==
  LET all == MessagesDesc(Len(messages), status)
      rest == SubSeq(all, offset + 1, Len(all))
  IN  SubSeq(rest, 1, Min(limit, Len(rest)))

\* getMessagesByStatus without the status filter
getMessagesAnyStatus(status) == getMessages(1000, 0, "")

getMessagesByStatus(status) == getMessages(1000, 0, status)

\* .set({ ...message }) with message = { status } or { status, sentAt }
updateMessage(id, status, sentAt) ==
  [messages EXCEPT ![id] =
     [@ EXCEPT !.status = status,
               !.sentAt = IF sentAt = Null THEN @ ELSE sentAt]]

---------------------------------------------------------------------------
(* REST handlers that write status *)

TriggerStatuses == {"new", "handled", "ignored"}
MessageStatuses == {"draft", "to_send", "sent", "failed"}

\* PUT /api/triggers/:id with body { status }
PutTrigger(t, status) ==
  /\ t \in DOMAIN triggers
  /\ triggers' = updateTrigger(t, status)
  /\ UNCHANGED <<bdayVars, schedVars, scanVars, people, messages, clock, answers, brainVars, histVars, faults, mailVars>>

\* PUT /api/messages/:id with body { status }
PutMessage(i, status) ==
  /\ i \in DOMAIN messages
  /\ messages' = updateMessage(i, status, Null)
  /\ UNCHANGED <<bdayVars, schedVars, scanVars, people, triggers, clock, answers, brainVars, histVars, faults,
                 mailPc, mailList, mailIdx, mailRunsLeft, delivered, thrown, bulkList>>

\* POST /api/messages with body { personId, media, address, from, subject,
\* content }: insertMessageSchema takes any string as address, status
\* defaults to draft
PostMessage(person, media, address) ==
  /\ Len(messages) < MaxMessages
  /\ messages' = createMessage([conversationId |-> Null,
                                personId |-> person,
                                triggerId |-> Null,
                                media |-> media,
                                address |-> address,
                                from |-> "us",
                                subject |-> "S",
                                content |-> "C",
                                status |-> "draft"])
  /\ clock' = clock + 1
  /\ UNCHANGED <<bdayVars, schedVars, scanVars, people, triggers, answers, brainVars, histVars, faults,
                 mailVars>>

\* POST /api/messages/send-drafts, line 497
SendDraftsFetch ==
  /\ bulkList = <<Null>>
  /\ bulkList' = getMessagesByStatus("draft")
  /\ UNCHANGED <<bdayVars, schedVars, scanVars, people, triggers, messages, clock, answers, brainVars, histVars, faults,
                 mailPc, mailList, mailIdx, mailRunsLeft, delivered, thrown>>

RECURSIVE PromoteAll(_, _)
\* lines 500-504: updateMessage(id, { status: 'to_send' }) for every listed id
PromoteAll(table, ids) ==
  IF ids = <<>> THEN table
  ELSE PromoteAll([table EXCEPT ![Head(ids)].status = "to_send"], Tail(ids))

\* POST /api/messages/send-drafts, lines 500-509
SendDraftsUpdate ==
  /\ bulkList # <<Null>>
  /\ messages' = PromoteAll(messages, bulkList)
  /\ bulkList' = <<Null>>
  /\ UNCHANGED <<bdayVars, schedVars, scanVars, people, triggers, clock, answers, brainVars, histVars, faults,
                 mailPc, mailList, mailIdx, mailRunsLeft, delivered, thrown>>

---------------------------------------------------------------------------
(* Mailer: EmailService.sendPendingEmails and sendEmail *)

CurMessage(r) == mailList[r][mailIdx[r]]

InMailLoop(r) == mailPc[r] = "loop" /\ mailIdx[r] <= Len(mailList[r])

\* line 127
EmailOnly(ids) == SelectSeq(ids, LAMBDA i : messages[i].media = "email")

\* lines 23-29: the preconditions of sendEmail
Sendable(i) == messages[i].media = "email" /\ people[messages[i].personId].email # ""

NextMail(r) ==
  /\ mailIdx' = [mailIdx EXCEPT ![r] = @ + 1]
  /\ mailPc' = [mailPc EXCEPT ![r] = "loop"]

\* lines 126-127 fetching the drafts instead of the messages to send
MailFetchDrafts(r) ==
  /\ mailPc[r] = "idle"
  /\ mailRunsLeft > 0
  /\ mailRunsLeft' = mailRunsLeft - 1
  /\ mailList' = [mailList EXCEPT ![r] = EmailOnly(getMessagesByStatus("draft"))]
  /\ mailIdx' = [mailIdx EXCEPT ![r] = 1]
  /\ mailPc' = [mailPc EXCEPT ![r] = "loop"]
  /\ UNCHANGED <<bdayVars, schedVars, scanVars, people, triggers, messages, clock, answers, brainVars,
                 histVars, faults, delivered, thrown, bulkList>>

\* lines 126-127 succeed
MailFetch(r) ==
  /\ mailPc[r] = "idle"
  /\ mailRunsLeft > 0
  /\ mailRunsLeft' = mailRunsLeft - 1
  /\ mailList' = [mailList EXCEPT ![r] = EmailOnly(getMessagesByStatus("to_send"))]
  /\ mailIdx' = [mailIdx EXCEPT ![r] = 1]
  /\ mailPc' = [mailPc EXCEPT ![r] = "loop"]
  /\ UNCHANGED <<bdayVars, schedVars, scanVars, people, triggers, messages, clock, answers, brainVars, histVars, faults,
                 delivered, thrown, bulkList>>

\* line 126 throws: the catch at line 144 ends the run
MailFetchFail(r) ==
  /\ faults < MaxFaults
  /\ faults' = faults + 1
  /\ mailPc[r] = "idle"
  /\ mailRunsLeft > 0
  /\ mailRunsLeft' = mailRunsLeft - 1
  /\ UNCHANGED <<bdayVars, schedVars, scanVars, people, triggers, messages, clock, answers, brainVars, histVars,
                 mailPc, mailList, mailIdx, delivered, thrown, bulkList>>

\* lines 23-29 throw: a precondition of sendEmail fails, on to the catch block
MailReject(r) ==
  /\ InMailLoop(r)
  /\ ~Sendable(CurMessage(r))
  /\ mailPc' = [mailPc EXCEPT ![r] = "failed"]
  /\ UNCHANGED <<bdayVars, schedVars, scanVars, people, triggers, messages, clock, answers, brainVars, histVars, faults,
                 mailList, mailIdx, mailRunsLeft, delivered, thrown, bulkList>>

\* line 41 returns: the transport accepted the mail
MailDeliver(r) ==
  /\ InMailLoop(r)
  /\ Sendable(CurMessage(r))
  /\ delivered' = Append(delivered, CurMessage(r))
  /\ mailPc' = [mailPc EXCEPT ![r] = "sent"]
  /\ UNCHANGED <<bdayVars, thrown, schedVars, scanVars, people, triggers, messages, clock, answers, brainVars, histVars, faults,
                 mailList, mailIdx, mailRunsLeft, bulkList>>

\* line 41 throws (connection, auth, rejection): on to the catch block
MailDeliverFail(r) ==
  /\ faults < MaxFaults
  /\ faults' = faults + 1
  /\ InMailLoop(r)
  /\ Sendable(CurMessage(r))
  /\ thrown' = Append(thrown, CurMessage(r))
  /\ mailPc' = [mailPc EXCEPT ![r] = "failed"]
  /\ UNCHANGED <<bdayVars, schedVars, scanVars, people, triggers, messages, clock, answers, brainVars, histVars,
                 mailList, mailIdx, mailRunsLeft, delivered, bulkList>>

\* lines 46-51 succeed
MailMarkSent(r) ==
  /\ mailPc[r] = "sent"
  /\ messages' = updateMessage(CurMessage(r), "sent", clock)
  /\ clock' = clock + 1
  /\ NextMail(r)
  /\ UNCHANGED <<bdayVars, schedVars, scanVars, people, triggers, answers, brainVars, histVars, faults,
                 mailList, mailRunsLeft, delivered, thrown, bulkList>>

\* line 46 throws: on to the catch block at line 52
MailMarkSentFail(r) ==
  /\ faults < MaxFaults
  /\ faults' = faults + 1
  /\ mailPc[r] = "sent"
  /\ mailPc' = [mailPc EXCEPT ![r] = "failed"]
  /\ UNCHANGED <<bdayVars, schedVars, scanVars, people, triggers, messages, clock, answers, brainVars, histVars,
                 mailList, mailIdx, mailRunsLeft, delivered, thrown, bulkList>>

\* the catch block of sendEmail without the write of lines 56-58
MailMarkFailedNoWrite(r) ==
  /\ mailPc[r] = "failed"
  /\ NextMail(r)
  /\ UNCHANGED <<bdayVars, schedVars, scanVars, people, triggers, messages, clock, answers, brainVars, histVars,
                 faults, mailList, mailRunsLeft, delivered, thrown, bulkList>>

\* lines 56-60 succeed
MailMarkFailed(r) ==
  /\ mailPc[r] = "failed"
  /\ messages' = updateMessage(CurMessage(r), "failed", Null)
  /\ NextMail(r)
  /\ UNCHANGED <<bdayVars, schedVars, scanVars, people, triggers, clock, answers, brainVars, histVars, faults,
                 mailList, mailRunsLeft, delivered, thrown, bulkList>>

\* line 56 throws and the error ends the run instead of the iteration
MailMarkFailedFailAborts(r) ==
  /\ faults < MaxFaults
  /\ faults' = faults + 1
  /\ mailPc[r] = "failed"
  /\ mailPc' = [mailPc EXCEPT ![r] = "idle"]
  /\ mailList' = [mailList EXCEPT ![r] = <<>>]
  /\ mailIdx' = [mailIdx EXCEPT ![r] = 0]
  /\ UNCHANGED <<bdayVars, schedVars, scanVars, people, triggers, messages, clock, answers, brainVars, histVars,
                 mailRunsLeft, delivered, thrown, bulkList>>

\* line 56 throws out of sendEmail and no enclosing try catches it
MailMarkFailedFailRejects(r) ==
  /\ faults < MaxFaults
  /\ faults' = faults + 1
  /\ mailPc[r] = "failed"
  /\ mailPc' = [mailPc EXCEPT ![r] = "rejected"]
  /\ UNCHANGED <<bdayVars, schedVars, scanVars, people, triggers, messages, clock, answers, brainVars, histVars,
                 mailList, mailIdx, mailRunsLeft, delivered, thrown, bulkList>>

\* line 56 throws out of sendEmail: caught at line 138, on to the next message
MailMarkFailedFail(r) ==
  /\ faults < MaxFaults
  /\ faults' = faults + 1
  /\ mailPc[r] = "failed"
  /\ NextMail(r)
  /\ UNCHANGED <<bdayVars, schedVars, scanVars, people, triggers, messages, clock, answers, brainVars, histVars,
                 mailList, mailRunsLeft, delivered, thrown, bulkList>>

\* line 143: the loop is over
MailDone(r) ==
  /\ mailPc[r] = "loop"
  /\ mailIdx[r] > Len(mailList[r])
  /\ mailPc' = [mailPc EXCEPT ![r] = "idle"]
  /\ mailList' = [mailList EXCEPT ![r] = <<>>]
  /\ mailIdx' = [mailIdx EXCEPT ![r] = 0]
  /\ UNCHANGED <<bdayVars, schedVars, scanVars, people, triggers, messages, clock, answers, brainVars, histVars, faults,
                 mailRunsLeft, delivered, thrown, bulkList>>

\* scheduler.ts lines 38-40: the cron expression of the emailSender job comes
\* round again, one more run is due
EmailSenderTick ==
  /\ mailRunsLeft = 0
  /\ mailPc[1] = "idle"
  /\ mailRunsLeft' = 1
  /\ UNCHANGED <<bdayVars, schedVars, scanVars, people, triggers, messages, clock, answers, brainVars,
                 histVars, faults, mailPc, mailList, mailIdx, delivered, thrown, bulkList>>

\* no Mailer run and no send-drafts request in progress, none to come
MailIdle ==
  /\ mailPc = [r \in Runs |-> "idle"]
  /\ mailList = [r \in Runs |-> <<>>]
  /\ mailIdx = [r \in Runs |-> 0]
  /\ mailRunsLeft = 0
  /\ delivered = <<>>
  /\ thrown = <<>>
  /\ bulkList = <<Null>>

---------------------------------------------------------------------------
(* Event Scanner: GoogleNewsService.scanAccountNews and scanPeopleNews *)

Accounts == {1, 2}
ScanProcs == {"accounts", "people"}

\* the lookup of lines 76 and 132 reads this many triggers, newest first
WindowSize == 10

\* article k of the external source
Link(k) == "https://news/" \o ToString(k)
Title(k) == "Story " \o ToString(k) \o "."
Hit(k) == [link |-> Link(k), title |-> Title(k), snippet |-> "s"]
\* article k once more under the link of article j
Repost(k, j) == [link |-> Link(j), title |-> Title(k), snippet |-> "s"]

\* the row createTrigger stores for the (accountId, personId, url, content,
\* triggerType, status) of an InsertTrigger; content is kept as the title and
\* snippet it is built from, createdAt defaults to now (the day of the model
\* is "today", rows of the initial store may be from "earlier")
NewTrigger(account, person, url, title, snippet, type) ==
  [accountId |-> account, personId |-> person, url |-> url,
   title |-> title, snippet |-> snippet, triggerType |-> type, status |-> "new",
   createdAt |-> "today"]

\* lines 88, 144
ContentOf(t) == t.title \o "\n\n" \o t.snippet

\* String.prototype.includes
Includes(hay, needle) ==
  \E i \in 0..(Len(hay) - Len(needle)) : SubSeq(hay, i + 1, i + Len(needle)) = needle

\* person.accountId: Jane works at account 1, Joe has no account
accountIdOf(p) == IF p = 1 THEN 1 ELSE Null

\* getAccounts(100, 0) and getPeople(100, 0): newest first
getAccounts == <<2, 1>>
getPeople == <<2, 1>>

\* the query string: account.name at line 72, searchQueries at lines 122-125
QueryOf(proc, subject, q) ==
  IF proc = "accounts" THEN <<"account", subject>>
  ELSE IF q = 2 /\ accountIdOf(subject) # Null THEN <<"personAt", subject>>
  ELSE <<"person", subject>>

Queries ==
  {<<"account", a>> : a \in Accounts} \cup {<<"person", p>> : p \in People}
    \cup {<<"personAt", p>> : p \in People}

\* number of queries per subject: one per account, two per person
QueriesPer(proc) == IF proc = "accounts" THEN 1 ELSE 2

CurSubject(proc) == scanList[proc][scanSubj[proc]]
CurHit(proc) == scanHits[proc][scanHit[proc]]

\* lines 76-80 and 132-136 without the content rule: only the url is compared
ScanExistsUrlOnly(proc, hit) ==
  LET existingTriggers == getTriggers(WindowSize, 0, "")
  IN  \E k \in 1..Len(existingTriggers) : triggers[existingTriggers[k]].url = hit.link

\* lines 76-80 and 132-136: the dedup lookup over the recent window
ScanExists(proc, hit) ==
  LET existingTriggers == getTriggers(WindowSize, 0, "")
  IN  \E k \in 1..Len(existingTriggers) :
        LET t == triggers[existingTriggers[k]]
        IN  \/ t.url = hit.link
            \/ /\ Includes(ContentOf(t), hit.title)
               /\ IF proc = "accounts" THEN t.accountId = CurSubject(proc)
                                       ELSE t.personId = CurSubject(proc)

\* lines 83-91 and 139-147
ScanTrigger(proc, hit) ==
  IF proc = "accounts"
  THEN NewTrigger(CurSubject(proc), Null, hit.link, hit.title, hit.snippet, "news")
  ELSE NewTrigger(accountIdOf(CurSubject(proc)), CurSubject(proc),
                  hit.link, hit.title, hit.snippet, "news")

\* on to the next account / person (after the per-subject catch as well)
NextSubject(proc) ==
  /\ scanSubj' = [scanSubj EXCEPT ![proc] = @ + 1]
  /\ scanQuery' = [scanQuery EXCEPT ![proc] = 1]
  /\ scanHits' = [scanHits EXCEPT ![proc] = <<>>]
  /\ scanHit' = [scanHit EXCEPT ![proc] = 0]
  /\ scanPc' = [scanPc EXCEPT ![proc] = "search"]

\* runFullScan, lines 222-230: both news scans start (scanBirthdays, the
\* third branch, finds no birthday today and writes nothing)
RunFullScan ==
  /\ \A proc \in ScanProcs : scanPc[proc] = "idle"
  /\ scansLeft > 0
  /\ scansLeft' = scansLeft - 1
  /\ scanPc' = [proc \in ScanProcs |-> "fetch"]
  /\ UNCHANGED <<bdayVars, people, triggers, messages, clock, answers, brainVars, histVars, faults,
                 schedVars, mailVars, news, scanList, scanSubj, scanQuery, scanHits, scanHit>>

\* lines 67 and 114 succeed
ScanFetch(proc) ==
  /\ scanPc[proc] = "fetch"
  /\ scanList' = [scanList EXCEPT ![proc] = IF proc = "accounts" THEN getAccounts
                                                                  ELSE getPeople]
  /\ scanSubj' = [scanSubj EXCEPT ![proc] = 1]
  /\ scanQuery' = [scanQuery EXCEPT ![proc] = 1]
  /\ scanPc' = [scanPc EXCEPT ![proc] = "search"]
  /\ UNCHANGED <<bdayVars, people, triggers, messages, clock, answers, brainVars, histVars, faults,
                 schedVars, mailVars, news, scanHits, scanHit, scansLeft>>

\* lines 67 and 114 throw: the catch at lines 106, 166 ends the scan
ScanFetchFail(proc) ==
  /\ faults < MaxFaults
  /\ faults' = faults + 1
  /\ scanPc[proc] = "fetch"
  /\ scanPc' = [scanPc EXCEPT ![proc] = "idle"]
  /\ UNCHANGED <<bdayVars, people, triggers, messages, clock, answers, brainVars, histVars,
                 schedVars, mailVars, news, scanList, scanSubj, scanQuery, scanHits, scanHit, scansLeft>>

\* lines 72 and 128: searchNews answers
ScanSearch(proc) ==
  /\ scanPc[proc] = "search"
  /\ scanSubj[proc] <= Len(scanList[proc])
  /\ scanHits' = [scanHits EXCEPT ![proc] =
                    news[QueryOf(proc, CurSubject(proc), scanQuery[proc])]]
  /\ scanHit' = [scanHit EXCEPT ![proc] = 1]
  /\ scanPc' = [scanPc EXCEPT ![proc] = "check"]
  /\ UNCHANGED <<bdayVars, people, triggers, messages, clock, answers, brainVars, histVars, faults,
                 schedVars, mailVars, news, scanList, scanSubj, scanQuery, scansLeft>>

\* lines 48-52: the request fails, searchNews returns []
ScanSearchFail(proc) ==
  /\ faults < MaxFaults
  /\ faults' = faults + 1
  /\ scanPc[proc] = "search"
  /\ scanSubj[proc] <= Len(scanList[proc])
  /\ scanHits' = [scanHits EXCEPT ![proc] = <<>>]
  /\ scanHit' = [scanHit EXCEPT ![proc] = 1]
  /\ scanPc' = [scanPc EXCEPT ![proc] = "check"]
  /\ UNCHANGED <<bdayVars, people, triggers, messages, clock, answers, brainVars, histVars,
                 schedVars, mailVars, news, scanList, scanSubj, scanQuery, scansLeft>>

\* lines 76-82 and 132-138: getTriggers(10, 0) answers, exists is computed
ScanCheck(proc) ==
  /\ scanPc[proc] = "check"
  /\ scanHit[proc] <= Len(scanHits[proc])
  /\ IF ScanExists(proc, CurHit(proc))
     THEN /\ scanHit' = [scanHit EXCEPT ![proc] = @ + 1]
          /\ UNCHANGED scanPc
     ELSE /\ scanPc' = [scanPc EXCEPT ![proc] = "create"]
          /\ UNCHANGED scanHit
  /\ UNCHANGED <<bdayVars, people, triggers, messages, clock, answers, brainVars, histVars, faults,
                 schedVars, mailVars, news, scanList, scanSubj, scanQuery, scanHits, scansLeft>>

\* lines 76 and 132 throw: the catch at lines 100, 160, on to the next subject
ScanCheckFail(proc) ==
  /\ faults < MaxFaults
  /\ faults' = faults + 1
  /\ scanPc[proc] = "check"
  /\ scanHit[proc] <= Len(scanHits[proc])
  /\ NextSubject(proc)
  /\ UNCHANGED <<bdayVars, people, triggers, messages, clock, answers, brainVars, histVars,
                 schedVars, mailVars, news, scanList, scansLeft>>

\* lines 93 and 149 succeed
ScanCreate(proc) ==
  /\ scanPc[proc] = "create"
  /\ triggers' = Append(triggers, ScanTrigger(proc, CurHit(proc)))
  /\ scanHit' = [scanHit EXCEPT ![proc] = @ + 1]
  /\ scanPc' = [scanPc EXCEPT ![proc] = "check"]
  /\ UNCHANGED <<bdayVars, people, messages, clock, answers, brainVars, histVars, faults,
                 schedVars, mailVars, news, scanList, scanSubj, scanQuery, scanHits, scansLeft>>

\* lines 93 and 149 throw: the catch at lines 100, 160, on to the next subject
ScanCreateFail(proc) ==
  /\ faults < MaxFaults
  /\ faults' = faults + 1
  /\ scanPc[proc] = "create"
  /\ NextSubject(proc)
  /\ UNCHANGED <<bdayVars, people, triggers, messages, clock, answers, brainVars, histVars,
                 schedVars, mailVars, news, scanList, scansLeft>>

\* lines 96-99 and 152-159: the hits are done, next query or next subject
ScanHitsDone(proc) ==
  /\ scanPc[proc] = "check"
  /\ scanHit[proc] > Len(scanHits[proc])
  /\ IF scanQuery[proc] < QueriesPer(proc)
     THEN /\ scanQuery' = [scanQuery EXCEPT ![proc] = @ + 1]
          /\ scanHits' = [scanHits EXCEPT ![proc] = <<>>]
          /\ scanHit' = [scanHit EXCEPT ![proc] = 0]
          /\ scanPc' = [scanPc EXCEPT ![proc] = "search"]
          /\ UNCHANGED scanSubj
     ELSE NextSubject(proc)
  /\ UNCHANGED <<bdayVars, people, triggers, messages, clock, answers, brainVars, histVars, faults,
                 schedVars, mailVars, news, scanList, scansLeft>>

\* lines 105 and 165: the scan is over
ScanDone(proc) ==
  /\ scanPc[proc] = "search"
  /\ scanSubj[proc] > Len(scanList[proc])
  /\ scanPc' = [scanPc EXCEPT ![proc] = "idle"]
  /\ scanList' = [scanList EXCEPT ![proc] = <<>>]
  /\ scanSubj' = [scanSubj EXCEPT ![proc] = 0]
  /\ UNCHANGED <<bdayVars, people, triggers, messages, clock, answers, brainVars, histVars, faults,
                 schedVars, mailVars, news, scanQuery, scanHits, scanHit, scansLeft>>

---------------------------------------------------------------------------
(* Event Scanner: GoogleNewsService.scanBirthdays *)

\* the lookup of line 190 reads this many triggers, newest first
BirthdayWindow == 50

\* lines 184-188: the details of Jane hold today's date as her birthday, the
\* details of Joe hold no birthday
hasBirthdayToday(p) == p = 1

CurPerson(r) == bdayList[r][bdayIdx[r]]

InBdayLoop(r) == bdayPc[r] = "loop" /\ bdayIdx[r] <= Len(bdayList[r])

\* lines 190-196
hasRecentBirthdayTrigger(p) ==
  LET recentTriggers == getTriggers(BirthdayWindow, 0, "")
  IN  \E k \in 1..Len(recentTriggers) :
        LET t == triggers[recentTriggers[k]]
        IN  /\ t.personId = p
            /\ t.triggerType = "birthday"
            /\ t.createdAt = "today"

\* lines 199-207 (url null, content "Birthday reminder for ...")
BirthdayTrigger(p) ==
  NewTrigger(accountIdOf(p), p, Null, "Birthday reminder", "", "birthday")

\* the catch at line 217: the scan is over
BdayEnd(r) ==
  /\ bdayPc' = [bdayPc EXCEPT ![r] = "idle"]
  /\ bdayList' = [bdayList EXCEPT ![r] = <<>>]
  /\ bdayIdx' = [bdayIdx EXCEPT ![r] = 0]

\* line 180 succeeds
BdayFetch(r) ==
  /\ bdayPc[r] = "idle"
  /\ bdayRunsLeft > 0
  /\ bdayRunsLeft' = bdayRunsLeft - 1
  /\ bdayList' = [bdayList EXCEPT ![r] = getPeople]
  /\ bdayIdx' = [bdayIdx EXCEPT ![r] = 1]
  /\ bdayPc' = [bdayPc EXCEPT ![r] = "loop"]
  /\ UNCHANGED <<people, triggers, messages, clock, answers, brainVars, histVars, faults,
                 mailVars, scanVars, schedVars>>

\* line 180 throws: the catch at line 217 ends the scan
BdayFetchFail(r) ==
  /\ faults < MaxFaults
  /\ faults' = faults + 1
  /\ bdayPc[r] = "idle"
  /\ bdayRunsLeft > 0
  /\ bdayRunsLeft' = bdayRunsLeft - 1
  /\ UNCHANGED <<people, triggers, messages, clock, answers, brainVars, histVars,
                 mailVars, scanVars, schedVars, bdayPc, bdayList, bdayIdx>>

\* lines 184-188: no birthday today, on to the next person
BdaySkip(r) ==
  /\ InBdayLoop(r)
  /\ ~hasBirthdayToday(CurPerson(r))
  /\ bdayIdx' = [bdayIdx EXCEPT ![r] = @ + 1]
  /\ UNCHANGED <<people, triggers, messages, clock, answers, brainVars, histVars, faults,
                 mailVars, scanVars, schedVars, bdayPc, bdayList, bdayRunsLeft>>

\* lines 190-198: getTriggers(50, 0) answers, hasRecentBirthdayTrigger is
\* computed
BdayCheck(r) ==
  /\ InBdayLoop(r)
  /\ hasBirthdayToday(CurPerson(r))
  /\ IF hasRecentBirthdayTrigger(CurPerson(r))
     THEN /\ bdayIdx' = [bdayIdx EXCEPT ![r] = @ + 1]
          /\ UNCHANGED bdayPc
     ELSE /\ bdayPc' = [bdayPc EXCEPT ![r] = "create"]
          /\ UNCHANGED bdayIdx
  /\ UNCHANGED <<people, triggers, messages, clock, answers, brainVars, histVars, faults,
                 mailVars, scanVars, schedVars, bdayList, bdayRunsLeft>>

\* line 190 throws: the catch at line 217 ends the scan
BdayCheckFail(r) ==
  /\ faults < MaxFaults
  /\ faults' = faults + 1
  /\ InBdayLoop(r)
  /\ hasBirthdayToday(CurPerson(r))
  /\ BdayEnd(r)
  /\ UNCHANGED <<people, triggers, messages, clock, answers, brainVars, histVars,
                 mailVars, scanVars, schedVars, bdayRunsLeft>>

\* line 209 succeeds
BdayCreate(r) ==
  /\ bdayPc[r] = "create"
  /\ triggers' = Append(triggers, BirthdayTrigger(CurPerson(r)))
  /\ bdayIdx' = [bdayIdx EXCEPT ![r] = @ + 1]
  /\ bdayPc' = [bdayPc EXCEPT ![r] = "loop"]
  /\ UNCHANGED <<people, messages, clock, answers, brainVars, histVars, faults,
                 mailVars, scanVars, schedVars, bdayList, bdayRunsLeft>>

\* line 209 throws: the catch at line 217 ends the scan
BdayCreateFail(r) ==
  /\ faults < MaxFaults
  /\ faults' = faults + 1
  /\ bdayPc[r] = "create"
  /\ BdayEnd(r)
  /\ UNCHANGED <<people, triggers, messages, clock, answers, brainVars, histVars,
                 mailVars, scanVars, schedVars, bdayRunsLeft>>

\* line 216: the loop is over
BdayDone(r) ==
  /\ bdayPc[r] = "loop"
  /\ bdayIdx[r] > Len(bdayList[r])
  /\ BdayEnd(r)
  /\ UNCHANGED <<people, triggers, messages, clock, answers, brainVars, histVars, faults,
                 mailVars, scanVars, schedVars, bdayRunsLeft>>

---------------------------------------------------------------------------
(* Event Scanner: states at rest *)

NoNews == [q \in Queries |-> <<>>]

\* no scanBirthdays run in progress
BdayAtRest ==
  /\ bdayPc = [r \in Runs |-> "idle"]
  /\ bdayList = [r \in Runs |-> <<>>]
  /\ bdayIdx = [r \in Runs |-> 0]

\* no scan in progress
ScanAtRest ==
  /\ BdayAtRest
  /\ scanPc = [proc \in ScanProcs |-> "idle"]
  /\ scanList = [proc \in ScanProcs |-> <<>>]
  /\ scanSubj = [proc \in ScanProcs |-> 0]
  /\ scanQuery = [proc \in ScanProcs |-> 1]
  /\ scanHits = [proc \in ScanProcs |-> <<>>]
  /\ scanHit = [proc \in ScanProcs |-> 0]

\* no scan in progress, none to come
ScanIdle ==
  /\ news = NoNews
  /\ ScanAtRest
  /\ scansLeft = 0
  /\ bdayRunsLeft = 0

---------------------------------------------------------------------------
(* Scheduler: SchedulerService.start, stop and the cron ticks *)

\* lines 46-49, in the insertion order of the map
JobNames == <<"messageBrain", "googleNews", "triggersScanner", "emailSender">>

JobSet == Range(JobNames)

\* the tasks of a job that are started: each invokes the job body at a tick
RunningTasks(name) ==
  { k \in 1..Len(cronTasks) : cronTasks[k].name = name /\ cronTasks[k].running }

NotFired == [name \in JobSet |-> 0]

\* start(), lines 10-58: four new tasks are created (scheduled: false), put
\* in the map under their names, and every task of the map is started
SchedStart ==
  /\ schedCalls < MaxCalls
  /\ schedCalls' = schedCalls + 1
  /\ cronTasks' = cronTasks \o [k \in 1..Len(JobNames) |-> [name |-> JobNames[k], running |-> TRUE]]
  /\ jobs' = [name \in JobSet |->
                Len(cronTasks) + (CHOOSE k \in 1..Len(JobNames) : JobNames[k] = name)]
  /\ fired' = NotFired
  /\ stopped' = FALSE
  /\ UNCHANGED <<bdayVars, people, triggers, messages, clock, answers, brainVars, histVars, faults,
                 mailVars, scanVars>>

\* stop(), lines 60-69: every task of the map is stopped
SchedStop ==
  /\ schedCalls < MaxCalls
  /\ schedCalls' = schedCalls + 1
  /\ cronTasks' = [k \in 1..Len(cronTasks) |->
                     IF \E name \in JobSet : jobs[name] = k
                     THEN [cronTasks[k] EXCEPT !.running = FALSE]
                     ELSE cronTasks[k]]
  /\ fired' = NotFired
  /\ stopped' = TRUE
  /\ UNCHANGED <<bdayVars, people, triggers, messages, clock, answers, brainVars, histVars, faults,
                 mailVars, scanVars, jobs>>

\* the minute of a job's cron expression comes (lines 14, 22, 30, 38): every
\* started task of that name invokes the job body
CronTick(name) ==
  /\ fired' = [fired EXCEPT ![name] = Cardinality(RunningTasks(name))]
  /\ UNCHANGED <<bdayVars, people, triggers, messages, clock, answers, brainVars, histVars, faults,
                 mailVars, scanVars, cronTasks, jobs, stopped, schedCalls>>

\* line 8 and line 214: the scheduler is constructed, start() not yet called
SchedNew ==
  /\ cronTasks = <<>>
  /\ jobs = [name \in JobSet |-> Null]
  /\ fired = NotFired
  /\ stopped = FALSE
  /\ schedCalls = 0

---------------------------------------------------------------------------
(* Initial states: triggers fresh from the scanner, nothing drafted yet *)

\* one to MaxTriggers news triggers, each account-level or owned by a person
InitTriggers ==
  \E n \in 1..MaxTriggers :
    \E owner \in [1..n -> {Null} \cup People] :
      triggers = [i \in 1..n |-> NewTrigger(1, owner[i], Link(i), Title(i), "", "news")]

InitProcessor(tables, answerSet, runs) ==
  /\ people \in tables
  /\ answers = answerSet
  /\ InitTriggers
  /\ messages = <<>>
  /\ clock = 1
  /\ brainPc = [r \in Runs |-> "idle"]
  /\ brainList = [r \in Runs |-> <<>>]
  /\ brainIdx = [r \in Runs |-> 0]
  /\ brainDraft = [r \in Runs |-> NoDraft]
  /\ brainAddr = [r \in Runs |-> ""]
  /\ runsLeft = runs
  /\ genCalls = {}
  /\ genRaw = [t \in DOMAIN triggers |-> NoDraft]
  /\ outcome = [t \in DOMAIN triggers |-> "none"]
  /\ faults = 0
  /\ MailIdle
  /\ ScanIdle
  /\ SchedNew

\* MaxRuns runs over the scenario people of the testable properties; the
\* model answers with an email or a LinkedIn draft.
InitBrain == InitProcessor(ScenarioTables, CoreAnswers, MaxRuns)

\* Sequential runs of the Trigger Processor, every storage and generator
\* call free to fail.
NextBrain ==
  \/ BrainFetch(1)
  \/ BrainFetchFail(1)
  \/ BrainSkip(1)
  \/ BrainGenerate(1)
  \/ BrainGenerateFail(1)
  \/ BrainCreate(1)
  \/ BrainCreateFail(1)
  \/ BrainUpdate(1)
  \/ BrainUpdateFail(1)
  \/ BrainDone(1)
  \/ TriggersScanner(1)
  \/ TriggersScannerFail(1)
  \/ BrainFetchAgain(1)
  \/ BrainFetchAgainFail(1)

Spec == InitBrain /\ [][NextBrain]_vars

\* One run over every people table and every answer of the model.
InitDraft == InitProcessor(PeopleTables, GenAnswers, 1)

SpecDraft == InitDraft /\ [][NextBrain]_vars

\* Overlapping runs: a scheduled messageBrain tick, a manual
\* runJobManually('messageBrain') and a triggersScanner pass interleave at
\* their awaits; nothing throws.
NextRace ==
  \E r \in Runs :
    \/ BrainFetch(r)
    \/ BrainSkip(r)
    \/ BrainGenerate(r)
    \/ BrainCreate(r)
    \/ BrainUpdate(r)
    \/ BrainDone(r)
    \/ TriggersScanner(r)
    \/ BrainFetchAgain(r)

SpecRace == InitBrain /\ [][NextRace]_vars

\* Sequential Trigger Processor runs while users set trigger statuses through
\* PUT /api/triggers/:id.
NextTrig ==
  \/ NextBrain
  \/ \E t \in 1..MaxTriggers : \E st \in TriggerStatuses : PutTrigger(t, st)

SpecTrig == InitBrain /\ [][NextTrig]_vars

\* a draft as the message form or the Trigger Processor creates it
NewDraft(person, media) ==
  [conversationId |-> Null,
   personId |-> person,
   triggerId |-> Null,
   media |-> media,
   address |-> IF media = "email" THEN EmailOf(person) ELSE LinkedinOf(person),
   from |-> "us",
   subject |-> "S",
   content |-> "C",
   status |-> "draft"]

RECURSIVE CreateAll(_, _, _)
\* createMessage for each draft of the list, one clock tick apart
CreateAll(table, drafts, now) ==
  IF drafts = <<>> THEN table
  ELSE CreateAll(Append(table, [id |-> Len(table) + 1, sentAt |-> Null, createdAt |-> now]
                                 @@ Head(drafts)),
                 Tail(drafts), now + 1)

\* One to MaxMessages drafts, by email or LinkedIn, to people one of whom
\* may have no email on file; the triggers table is empty.
InitMailer(runs) ==
  /\ people \in ScenarioTables
  /\ answers = {}
  /\ triggers = <<>>
  /\ \E n \in 1..MaxMessages :
       \E to \in [1..n -> People] : \E by \in [1..n -> {"email", "linkedin"}] :
         /\ messages = CreateAll(<<>>, [i \in 1..n |-> NewDraft(to[i], by[i])], 1)
         /\ clock = n + 1
  /\ brainPc = [r \in Runs |-> "idle"]
  /\ brainList = [r \in Runs |-> <<>>]
  /\ brainIdx = [r \in Runs |-> 0]
  /\ brainDraft = [r \in Runs |-> NoDraft]
  /\ brainAddr = [r \in Runs |-> ""]
  /\ runsLeft = 0
  /\ genCalls = {}
  /\ genRaw = <<>>
  /\ outcome = <<>>
  /\ faults = 0
  /\ mailPc = [r \in Runs |-> "idle"]
  /\ mailList = [r \in Runs |-> <<>>]
  /\ mailIdx = [r \in Runs |-> 0]
  /\ mailRunsLeft = runs
  /\ delivered = <<>>
  /\ thrown = <<>>
  /\ bulkList = <<Null>>
  /\ ScanIdle
  /\ SchedNew

\* MaxRuns runs of the Mailer to come.
InitMsg == InitMailer(MaxRuns)

\* The message lifecycle: users set statuses (single update, bulk promote)
\* while emailSender runs follow one another.
NextMsg ==
  \/ \E i \in 1..MaxMessages : \E st \in MessageStatuses : PutMessage(i, st)
  \/ SendDraftsFetch
  \/ SendDraftsUpdate
  \/ MailFetch(1)
  \/ MailFetchFail(1)
  \/ MailReject(1)
  \/ MailDeliver(1)
  \/ MailDeliverFail(1)
  \/ MailMarkSent(1)
  \/ MailMarkSentFail(1)
  \/ MailMarkFailed(1)
  \/ MailMarkFailedFail(1)
  \/ MailDone(1)

SpecMsg == InitMsg /\ [][NextMsg]_vars

\* hits k..n of the source, in the order the search returns them
RECURSIVE HitsFrom(_, _)
HitsFrom(k, n) == IF k > n THEN <<>> ELSE <<Hit(k)>> \o HitsFrom(k + 1, n)

\* What the external source answers, the same at every scan.  Account 1 has
\* one article, one article and a repost of it, or one more than the lookup
\* window; account 2 has nothing, the first article of account 1, or one
\* article of its own; Jane has nothing or one article, found by both of
\* her queries.
NewsFeeds ==
  { [q \in Queries |->
       IF q = <<"account", 1>> THEN a1
       ELSE IF q = <<"account", 2>> THEN a2
       ELSE IF q \in {<<"person", 1>>, <<"personAt", 1>>} THEN p1
       ELSE <<>>] :
    a1 \in {<<Hit(1)>>, <<Hit(1), Repost(1, 2)>>, HitsFrom(1, WindowSize + 1)},
    a2 \in {<<>>, <<Hit(1)>>, <<Hit(21)>>},
    p1 \in {<<>>, <<Hit(41)>>} }

\* An empty store, full scans to come.
InitScanner(feeds, scans) ==
  /\ people \in {tb \in ScenarioTables : tb[1].email # ""}
  /\ answers = {}
  /\ triggers = <<>>
  /\ messages = <<>>
  /\ clock = 1
  /\ brainPc = [r \in Runs |-> "idle"]
  /\ brainList = [r \in Runs |-> <<>>]
  /\ brainIdx = [r \in Runs |-> 0]
  /\ brainDraft = [r \in Runs |-> NoDraft]
  /\ brainAddr = [r \in Runs |-> ""]
  /\ runsLeft = 0
  /\ genCalls = {}
  /\ genRaw = <<>>
  /\ outcome = <<>>
  /\ faults = 0
  /\ MailIdle
  /\ news \in feeds
  /\ ScanAtRest
  /\ scansLeft = scans
  /\ bdayRunsLeft = 0
  /\ SchedNew

\* MaxScans full scans to come.
InitScan == InitScanner(NewsFeeds, MaxScans)

\* Full scans one after the other, every storage and search call free to fail.
NextScan ==
  \/ RunFullScan
  \/ \E proc \in ScanProcs :
       \/ ScanFetch(proc)
       \/ ScanFetchFail(proc)
       \/ ScanSearch(proc)
       \/ ScanSearchFail(proc)
       \/ ScanCheck(proc)
       \/ ScanCheckFail(proc)
       \/ ScanCreate(proc)
       \/ ScanCreateFail(proc)
       \/ ScanHitsDone(proc)
       \/ ScanDone(proc)

SpecScan == InitScan /\ [][NextScan]_vars

\* The feeds in which only the accounts are in the news.
AccountFeeds == {f \in NewsFeeds : f[<<"person", 1>>] = <<>>}

\* Full scans over the account feeds: the people scan finds nothing.
SpecAccounts == InitScanner(AccountFeeds, MaxScans) /\ [][NextScan]_vars

\* The Mailer at work while users follow the lifecycle: they promote drafts
\* one by one and write no other status.
NextMailer ==
  \/ \E i \in 1..MaxMessages :
       /\ i \in DOMAIN messages
       /\ messages[i].status = "draft"
       /\ PutMessage(i, "to_send")
  \/ MailFetch(1)
  \/ MailFetchFail(1)
  \/ MailReject(1)
  \/ MailDeliver(1)
  \/ MailDeliverFail(1)
  \/ MailMarkSent(1)
  \/ MailMarkSentFail(1)
  \/ MailMarkFailed(1)
  \/ MailMarkFailedFail(1)
  \/ MailDone(1)

SpecMail == InitMsg /\ [][NextMailer]_vars

\* Overlapping runs of the Mailer: a scheduled emailSender tick and a manual
\* runJobManually('emailSender') interleave at their awaits (the storage
\* calls, sendMail, the 2-second delay of line 137); users promote drafts
\* one by one; nothing throws.
NextMailRace ==
  \/ \E i \in 1..MaxMessages :
       /\ i \in DOMAIN messages
       /\ messages[i].status = "draft"
       /\ PutMessage(i, "to_send")
  \/ \E r \in Runs :
       \/ MailFetch(r)
       \/ MailReject(r)
       \/ MailDeliver(r)
       \/ MailMarkSent(r)
       \/ MailMarkFailed(r)
       \/ MailDone(r)

SpecMailRace == InitMsg /\ [][NextMailRace]_vars

\* The send job on its schedule: users promote drafts one by one or in bulk,
\* an emailSender run is due again and again.
NextSend ==
  \/ NextMailer
  \/ SendDraftsFetch
  \/ SendDraftsUpdate
  \/ EmailSenderTick

\* the steps of the send job in which nothing fails
SendJob ==
  \/ EmailSenderTick
  \/ MailFetch(1)
  \/ MailReject(1)
  \/ MailDeliver(1)
  \/ MailMarkSent(1)
  \/ MailMarkFailed(1)
  \/ MailDone(1)

\* Fair scheduling of the send job: it is never held up for ever, and a
\* bulk promote that has read its list writes its updates.
SpecSend ==
  InitMailer(1) /\ [][NextSend]_vars /\ WF_vars(SendJob) /\ WF_vars(SendDraftsUpdate)

\* The scheduler alone: an empty store, no job body in progress.
InitSched ==
  /\ people \in {tb \in ScenarioTables : tb[1].email # ""}
  /\ answers = {}
  /\ triggers = <<>>
  /\ messages = <<>>
  /\ clock = 1
  /\ brainPc = [r \in Runs |-> "idle"]
  /\ brainList = [r \in Runs |-> <<>>]
  /\ brainIdx = [r \in Runs |-> 0]
  /\ brainDraft = [r \in Runs |-> NoDraft]
  /\ brainAddr = [r \in Runs |-> ""]
  /\ runsLeft = 0
  /\ genCalls = {}
  /\ genRaw = <<>>
  /\ outcome = <<>>
  /\ faults = 0
  /\ MailIdle
  /\ ScanIdle
  /\ SchedNew

\* start() and stop() called in any order, MaxCalls times in all, the cron
\* ticks of the four jobs coming in between.
NextSched ==
  \/ SchedStart
  \/ SchedStop
  \/ \E name \in JobSet : CronTick(name)

SpecSched == InitSched /\ [][NextSched]_vars

\* what the message form submits as address: the person's channel for the
\* medium, or the empty string when that channel is not on file
FormAddresses(person, media) ==
  {"", IF media = "email" THEN EmailOf(person) ELSE LinkedinOf(person)}

\* Triggers fresh from the scanner, at most one draft a user composed by
\* hand, to the person who has no email on file; one Trigger Processor run
\* and one emailSender run are to come.
InitPipe ==
  /\ people \in { tb \in ScenarioTables : tb[1].email = "" }
  /\ answers = CoreAnswers
  /\ InitTriggers
  /\ \E drafts \in {<<>>, <<NewDraft(1, "email")>>} :
       /\ messages = CreateAll(<<>>, drafts, 1)
       /\ clock = Len(drafts) + 1
  /\ brainPc = [r \in Runs |-> "idle"]
  /\ brainList = [r \in Runs |-> <<>>]
  /\ brainIdx = [r \in Runs |-> 0]
  /\ brainDraft = [r \in Runs |-> NoDraft]
  /\ brainAddr = [r \in Runs |-> ""]
  /\ runsLeft = 1
  /\ genCalls = {}
  /\ genRaw = [t \in DOMAIN triggers |-> NoDraft]
  /\ outcome = [t \in DOMAIN triggers |-> "none"]
  /\ faults = 0
  /\ mailPc = [r \in Runs |-> "idle"]
  /\ mailList = [r \in Runs |-> <<>>]
  /\ mailIdx = [r \in Runs |-> 0]
  /\ mailRunsLeft = 1
  /\ delivered = <<>>
  /\ thrown = <<>>
  /\ bulkList = <<Null>>
  /\ ScanIdle
  /\ SchedNew

\* a user promotes one draft, or all drafts in bulk
UserPromotes ==
  \/ \E i \in DOMAIN messages : messages[i].status = "draft" /\ PutMessage(i, "to_send")
  \/ SendDraftsFetch
  \/ SendDraftsUpdate

\* The pipeline from trigger to mail: the Trigger Processor and users
\* draft, users promote, the Mailer sends; the jobs interleave at their
\* awaits.
NextPipe ==
  \/ NextBrain
  \/ UserPromotes
  \/ MailFetch(1)
  \/ MailFetchFail(1)
  \/ MailReject(1)
  \/ MailDeliver(1)
  \/ MailDeliverFail(1)
  \/ MailMarkSent(1)
  \/ MailMarkSentFail(1)
  \/ MailMarkFailed(1)
  \/ MailMarkFailedFail(1)
  \/ MailDone(1)

SpecPipe == InitPipe /\ [][NextPipe]_vars

\* Messages are created by the Trigger Processor and by users through the
\* message creation endpoint.
NextCreate ==
  \/ NextBrain
  \/ \E person \in People : \E media \in {"email", "linkedin"} :
       \E address \in FormAddresses(person, media) : PostMessage(person, media, address)

SpecCreate == InitBrain /\ [][NextCreate]_vars

\* news triggers 1..n of account 2, oldest first
NewsBurst(n) == [i \in 1..n |-> NewTrigger(2, Null, Link(i), Title(i), "", "news")]

\* The stores a birthday scan can find on Jane's birthday: empty; her
\* birthday trigger of an earlier year; her birthday trigger of today; her
\* birthday trigger of today with a lookup window of news triggers created
\* after it.
BirthdayStores ==
  { <<>>,
    <<[BirthdayTrigger(1) EXCEPT !.createdAt = "earlier"]>>,
    <<BirthdayTrigger(1)>>,
    <<BirthdayTrigger(1)>> \o NewsBurst(BirthdayWindow) }

\* MaxRuns runs of scanBirthdays to come on one calendar day.
InitBday ==
  /\ people \in {tb \in ScenarioTables : tb[1].email # ""}
  /\ answers = {}
  /\ triggers \in BirthdayStores
  /\ messages = <<>>
  /\ clock = 1
  /\ brainPc = [r \in Runs |-> "idle"]
  /\ brainList = [r \in Runs |-> <<>>]
  /\ brainIdx = [r \in Runs |-> 0]
  /\ brainDraft = [r \in Runs |-> NoDraft]
  /\ brainAddr = [r \in Runs |-> ""]
  /\ runsLeft = 0
  /\ genCalls = {}
  /\ genRaw = <<>>
  /\ outcome = <<>>
  /\ faults = 0
  /\ MailIdle
  /\ news = NoNews
  /\ ScanAtRest
  /\ scansLeft = 0
  /\ bdayRunsLeft = MaxRuns
  /\ SchedNew

\* Birthday scans of the same day, one after the other or overlapping (a
\* scheduled googleNews tick and a manual run interleave at their awaits),
\* every storage call free to fail.
NextBday ==
  \E r \in Runs :
    \/ BdayFetch(r)
    \/ BdayFetchFail(r)
    \/ BdaySkip(r)
    \/ BdayCheck(r)
    \/ BdayCheckFail(r)
    \/ BdayCreate(r)
    \/ BdayCreateFail(r)
    \/ BdayDone(r)

SpecBday == InitBday /\ [][NextBday]_vars

\* runJobManually(jobName) with each valid job name: one run of that job and
\* of no other is to come (messageBrain or triggersScanner over new
\* triggers, emailSender over drafts the user promotes, googleNews over an
\* empty store).
InitJobs ==
  \/ InitProcessor(ScenarioTables, CoreAnswers, 1)
  \/ InitMailer(1)
  \/ InitScanner(NewsFeeds, 1)

NextJobs == NextBrain \/ NextMailer \/ NextScan

SpecJobs == InitJobs /\ [][NextJobs]_vars

---------------------------------------------------------------------------
(* Properties *)

\* ids of the messages that reference trigger t
MessagesOf(t) == { i \in DOMAIN messages : messages[i].triggerId = t }

\* no Trigger Processor run is in progress
Quiet == \A r \in Runs : brainPc[r] = "idle"

\* C1: every trigger that a run processed successfully (generation
\* succeeded, an address resolved, both writes succeeded) is handled and is
\* referenced by exactly one message, also after further sequential runs.
C1_ProcessedHasOneMessage ==
  \A t \in DOMAIN triggers :
    outcome[t] = "ok" =>
      /\ Cardinality(MessagesOf(t)) = 1
      /\ triggers[t].status = "handled"

\* C2: an account-level trigger (personId null) is never modified by the
\* Trigger Processor: it stays new, no message references it and the
\* generator is never called for it.
C2_AccountLevelUntouched ==
  \A t \in DOMAIN triggers :
    triggers[t].personId = Null =>
      /\ triggers[t] = NewTrigger(1, Null, Link(t), Title(t), "", "news")
      /\ MessagesOf(t) = {}
      /\ t \notin genCalls

\* a run has passed over an account-level trigger and has ended
C2_Witness ==
  /\ Quiet
  /\ \E t \in DOMAIN triggers : triggers[t].personId = Null /\ outcome[t] = "skipped"
  /\ \E t \in DOMAIN triggers : outcome[t] = "ok"

\* C3: with overlapping runs no trigger gets more than one message.
C3_AtMostOneDraftPerTrigger ==
  \A t \in DOMAIN triggers : Cardinality(MessagesOf(t)) <= 1

\* C4: a trigger is handled if and only if a draft message references it,
\* stated for the states in which no run is in progress (so that the moment
\* between the two writes of one iteration does not count).
C4_HandledIffMessage ==
  Quiet =>
    \A t \in DOMAIN triggers :
      (triggers[t].status = "handled") <=> (MessagesOf(t) # {})

EmailDraft == [media |-> "email", subject |-> "S", content |-> "C"]

\* the run has ended, nothing threw, and the generator answered EmailDraft
\* for the person-scoped trigger t whose person has an email
C10_Case(t) ==
  /\ Quiet /\ runsLeft = 0 /\ faults = 0
  /\ triggers[t].personId # Null
  /\ PersonOf(t).email # ""
  /\ genRaw[t] = EmailDraft

\* C10: one run over a new person-scoped trigger whose person has an email,
\* the generator answering {email, S, C}, creates exactly one message, with
\* the trigger's person, the trigger, status draft, from us, the person's
\* email as address, subject S and content C, and sets the trigger handled.
C10_EmailDraftScenario ==
  \A t \in DOMAIN triggers :
    C10_Case(t) =>
      /\ triggers[t].status = "handled"
      /\ \E i \in DOMAIN messages :
           /\ MessagesOf(t) = {i}
           /\ messages[i].personId = triggers[t].personId
           /\ messages[i].status = "draft"
           /\ messages[i].from = "us"
           /\ messages[i].media = "email"
           /\ messages[i].address = PersonOf(t).email
           /\ messages[i].subject = "S"
           /\ messages[i].content = "C"

C10_Witness == \E t \in DOMAIN triggers : C10_Case(t) /\ triggers[t].personId = 2

\* C5: a trigger's status only ever changes new -> handled or new -> ignored,
\* whoever writes it, and the Trigger Processor never drafts a message for a
\* trigger that is already handled.
C5_TriggerStatusForwardOnly ==
  [][/\ \A t \in DOMAIN triggers :
          triggers'[t].status # triggers[t].status =>
            /\ triggers[t].status = "new"
            /\ triggers'[t].status \in {"handled", "ignored"}
     /\ \A i \in DOMAIN messages' \ DOMAIN messages :
          triggers[messages'[i].triggerId].status # "handled"]_vars

\* C6: every change of a message's status is draft -> to_send,
\* to_send -> sent or to_send -> failed, and only a step of the Mailer
\* writes sent or failed.
C6_MessageLifecycle ==
  [][\A i \in DOMAIN messages :
       messages'[i].status # messages[i].status =>
         /\ <<messages[i].status, messages'[i].status>> \in
              {<<"draft", "to_send">>, <<"to_send", "sent">>, <<"to_send", "failed">>}
         /\ messages'[i].status \in {"sent", "failed"} => mailPc' # mailPc]_vars

\* C7: every sent message has a sentAt, not earlier than its createdAt.
C7_SentHasSentAt ==
  \A i \in DOMAIN messages :
    messages[i].status = "sent" =>
      /\ messages[i].sentAt # Null
      /\ messages[i].sentAt >= messages[i].createdAt

\* C8: the Event Scanner never creates two triggers with the same url for
\* the same subject (account-level: same accountId; person-level: same
\* personId).
C8_NoDuplicateSubjectUrl ==
  \A i, j \in DOMAIN triggers :
    (/\ triggers[i].url = triggers[j].url
     /\ triggers[i].personId = triggers[j].personId
     /\ triggers[i].personId = Null => triggers[i].accountId = triggers[j].accountId)
      => i = j

\* the triggers of account a that the account scan created
AccountTriggers(a) ==
  { t \in DOMAIN triggers : triggers[t].accountId = a /\ triggers[t].personId = Null }

\* C9: for an account whose search returns a single hit (the store holds no
\* trigger of it before the first scan), once its search has answered and
\* its hit has been looked at in a scanAccounts run, and ever after,
\* exactly one account-level trigger of that account exists, with
\* triggerType news, status new and the hit's link as url: the first run
\* creates it, the second run creates none.
C9_SingleHitSingleTrigger ==
  \A a \in Accounts :
    (/\ Len(news[<<"account", a>>]) = 1
     /\ faults = 0
     /\ \/ scansLeft = 0 /\ scanPc["accounts"] = "idle"
        \/ /\ scanPc["accounts"] \in {"search", "check"}
           /\ \E k \in 1..Len(scanList["accounts"]) :
                /\ scanList["accounts"][k] = a
                /\ \/ k < scanSubj["accounts"]
                   \/ k = scanSubj["accounts"] /\ scanHit["accounts"] = 2)
      => /\ Cardinality(AccountTriggers(a)) = 1
         /\ \A t \in AccountTriggers(a) :
              triggers[t] = NewTrigger(a, Null, news[<<"account", a>>][1].link,
                                       news[<<"account", a>>][1].title,
                                       news[<<"account", a>>][1].snippet, "news")

\* the person's channel that matches a medium: email, linkedin or twitter
\* by name (in any letter case), any other medium email then linkedin
MatchingChannel(media, person) ==
  IF toLowerCase(media) = "email" THEN person.email
  ELSE IF toLowerCase(media) = "linkedin" THEN person.linkedin
  ELSE IF toLowerCase(media) = "twitter" THEN person.twitter
  ELSE IF person.email # "" THEN person.email ELSE person.linkedin

NoChannels(person) == person.email = "" /\ person.linkedin = "" /\ person.twitter = ""

\* C11: the Trigger Processor creates a message for a person-scoped trigger,
\* and sets the trigger handled, only when the person has a channel matching
\* the drafted medium: every message of a trigger has such a channel, a
\* trigger without a message is still new, and the triggers of a person
\* with no email, linkedin or twitter stay new without any message.
C11_NoChannelNoDraft ==
  \A t \in DOMAIN triggers :
    triggers[t].personId # Null =>
      /\ \A i \in MessagesOf(t) : MatchingChannel(messages[i].media, PersonOf(t)) # ""
      /\ MessagesOf(t) = {} => triggers[t].status = "new"
      /\ NoChannels(PersonOf(t)) => triggers[t].status = "new" /\ MessagesOf(t) = {}

\* a finished run skipped a trigger whose person has an email on file but
\* not the drafted channel, and drafted for the other trigger
C11_Witness ==
  /\ Quiet
  /\ \E t \in DOMAIN triggers :
       /\ outcome[t] = "no_address"
       /\ PersonOf(t).email # ""
       /\ triggers[t].status = "new" /\ MessagesOf(t) = {}
  /\ \E t \in DOMAIN triggers : outcome[t] = "ok"

\* no emailSender run is in progress
MailQuiet == \A r \in Runs : mailPc[r] = "idle"

\* C12: after sendPending(), every email message whose delivery threw has
\* status failed and a null sentAt (the delivery being the only call that
\* throws: the write of the outcome reaches the store).
C12_ThrownIsFailed ==
  (MailQuiet /\ faults = Len(thrown)) =>
    \A i \in Range(thrown) :
      /\ messages[i].status = "failed"
      /\ messages[i].sentAt = Null

\* a run is over in which one delivery threw and an earlier one succeeded
C12_Witness ==
  /\ MailQuiet
  /\ faults = 1
  /\ Len(thrown) = 1
  /\ messages[thrown[1]].media = "email"
  /\ messages[thrown[1]].status = "failed"
  /\ \E i \in Range(delivered) : messages[i].status = "sent"

\* C13: the Mailer changes no stored field of a message that violates a
\* precondition of send (media not email, or the person has no email): its
\* status is still the one the user gave it, and no delivery is attempted.
C13_PreconditionNoSideEffect ==
  \A i \in DOMAIN messages :
    ~Sendable(i) =>
      /\ messages[i].status \in {"draft", "to_send"}
      /\ i \notin Range(delivered) \cup Range(thrown)

\* number of times message i was handed to the mail transport
Attempts(i, accepted, threw) ==
  Cardinality({k \in 1..Len(accepted) : accepted[k] = i})
    + Cardinality({k \in 1..Len(threw) : threw[k] = i})

\* C14: once the delivery of a message has thrown and the message is marked
\* failed, no step of the Mailer (the run that failed it or a later one)
\* hands it to the mail transport again or changes its status.
C14_NoAutomaticRetry ==
  [][\A i \in DOMAIN messages :
       (i \in Range(thrown) /\ messages[i].status = "failed") =>
         /\ Attempts(i, delivered', thrown') = Attempts(i, delivered, thrown)
         /\ messages'[i].status = "failed"]_vars

\* a message failed in one run, and the runs that followed are over
C14_Witness ==
  /\ MailQuiet
  /\ mailRunsLeft = 0
  /\ \E i \in Range(thrown) : messages[i].status = "failed"
  /\ \E i \in Range(delivered) : messages[i].status = "sent"

\* C15: a failure while sending one message (sendMail throws, or the write
\* of the outcome throws) does not end the run: a run that has fetched its
\* list ends only when send has been called on the last message of the list,
\* and every message it has passed that satisfies the preconditions of send was handed to the
\* mail transport.
C15_FailureDoesNotBlock ==
  /\ [](\A r \in Runs :
          mailPc[r] = "loop" =>
            \A k \in 1..(mailIdx[r] - 1) :
              Sendable(mailList[r][k]) =>
                mailList[r][k] \in Range(delivered) \cup Range(thrown))
  /\ [][\A r \in Runs :
          (mailPc[r] # "idle" /\ mailPc'[r] = "idle") =>
            \/ mailPc[r] = "loop" /\ mailIdx[r] > Len(mailList[r])
            \/ mailPc[r] \in {"sent", "failed"} /\ mailIdx[r] = Len(mailList[r])]_vars

\* the first message of the list failed and the second was delivered
C15_Witness ==
  /\ mailPc[1] = "loop"
  /\ Len(mailList[1]) = 2
  /\ mailIdx[1] = 3
  /\ faults = 1
  /\ messages[mailList[1][1]].status \in {"failed", "to_send"}
  /\ delivered = <<mailList[1][2]>>
  /\ messages[mailList[1][2]].status = "sent"

\* the run is inside its loop over the fetched triggers
Processing(r) == brainPc[r] \in {"loop", "create", "update"}

\* C16: an exception while processing one trigger ends that iteration only:
\* the step in which a call throws moves the run to the next trigger of its
\* list without a write (no retry), every trigger the run has passed was
\* looked at, and the run leaves the loop only after the last trigger.
C16_PerTriggerCatch ==
  /\ [](\A r \in Runs :
          brainPc[r] = "loop" =>
            \A k \in 1..(brainIdx[r] - 1) : outcome[brainList[r][k]] # "none")
  /\ [][\A r \in Runs :
          /\ (Processing(r) /\ faults' = faults + 1) =>
               /\ brainPc'[r] = "loop"
               /\ brainIdx'[r] = brainIdx[r] + 1
               /\ brainList'[r] = brainList[r]
               /\ messages' = messages /\ triggers' = triggers
          /\ (Processing(r) /\ brainPc'[r] = "idle") =>
               (brainPc[r] = "loop" /\ brainIdx[r] > Len(brainList[r]))]_vars

\* the first trigger of the list failed and the second was drafted
C16_Witness ==
  /\ brainPc[1] = "loop"
  /\ Len(brainList[1]) = 2
  /\ brainIdx[1] = 3
  /\ faults = 1
  /\ outcome[brainList[1][1]] \in {"gen_failed", "create_failed", "update_failed"}
  /\ outcome[brainList[1][2]] = "ok"

\* C17: however many times start() has been called (and no stop() since),
\* each of the four jobs has exactly one started task and its body is
\* invoked at most once per tick.
C17_StartIdempotent ==
  (schedCalls > 0 /\ ~stopped) =>
    \A name \in JobSet :
      /\ Cardinality(RunningTasks(name)) = 1
      /\ fired[name] <= 1

\* C18: after stop() has returned and until start() is called again, no
\* tick invokes a job body.
C18_StopHalts ==
  stopped => \A name \in JobSet : fired[name] = 0

\* C19: a step that moves a message from draft to to_send is a step of no
\* job (no run of the Trigger Processor, the Mailer or the scanner moves in
\* it), the list an emailSender run fetches holds messages with status
\* to_send only, and no message handed to the mail transport is a draft.
C19_OnlyUsersPromote ==
  /\ [](\A i \in Range(delivered) \cup Range(thrown) : messages[i].status # "draft")
  /\ [][/\ \A i \in DOMAIN messages :
             (messages[i].status = "draft" /\ messages'[i].status = "to_send") =>
               (brainVars' = brainVars /\ scanVars' = scanVars
                  /\ mailPc' = mailPc /\ mailIdx' = mailIdx /\ mailList' = mailList)
        /\ \A r \in Runs :
             mailList'[r] # mailList[r] =>
               \A k \in 1..Len(mailList'[r]) : messages[mailList'[r][k]].status = "to_send"]_vars

\* a message drafted by the Trigger Processor was promoted and delivered,
\* another one is still a draft after an emailSender run
C19_Witness ==
  /\ MailQuiet
  /\ \E i \in Range(delivered) : messages[i].triggerId # Null /\ messages[i].status = "sent"
  /\ \E i \in DOMAIN messages :
       /\ messages[i].status = "draft" /\ messages[i].media = "email"
       /\ i < delivered[1]

\* C20: every message has a non-empty address, whoever created it.
C20_AddressNonEmpty ==
  \A i \in DOMAIN messages : messages[i].address # ""

\* The control points of the job bodies: every one of them is inside the
\* try block of its job function, or the function has returned.
BrainPoints == {"idle", "loop", "create", "update", "rescan"}
MailPoints == {"idle", "loop", "sent", "failed"}
ScanPoints == {"idle", "fetch", "search", "check", "create"}

C22_BulkPromoteFrame ==
  [][(bulkList # <<Null>> /\ bulkList' = <<Null>>) =>
       /\ \A i \in DOMAIN messages :
            messages[i].status # "draft" => messages'[i].status = messages[i].status
       /\ Len(bulkList) =
            Cardinality({i \in DOMAIN messages :
                           messages[i].status = "draft" /\ messages'[i].status = "to_send"})]_vars

\* C23: when a Trigger Processor run is over, a person-scoped trigger the
\* processor has taken up and left in status new is one for which no contact
\* address was resolved: the missing-address skip is the only path that
\* leaves such a trigger new.
C23_NewOnlyWithoutAddress ==
  \A t \in DOMAIN triggers :
    (/\ brainPc[1] = "idle"
     /\ HasPerson(t)
     /\ triggers[t].status = "new"
     /\ outcome[t] # "none")
      => outcome[t] = "no_address"

\* today's birthday triggers of person p
BirthdayTriggersOf(p) ==
  {t \in DOMAIN triggers : /\ triggers[t].personId = p
                           /\ triggers[t].triggerType = "birthday"
                           /\ triggers[t].createdAt = "today"}

\* C24: however often scanBirthdays runs on one day, the store holds at most
\* one birthday trigger of that day for a given person.
C24_OneBirthdayPerDay ==
  \A p \in People : Cardinality(BirthdayTriggersOf(p)) <= 1

\* the hit is represented among the 10 most recently created triggers: one
\* of them has its link as url, or holds its title in the content and belongs
\* to account a
Represented(hit, a) ==
  \E t \in DOMAIN triggers :
    /\ t > Len(triggers) - 10
    /\ \/ triggers[t].url = hit.link
       \/ Includes(ContentOf(triggers[t]), hit.title) /\ triggers[t].accountId = a

\* C25: when scanAccounts looks a hit up it goes on to insert exactly when
\* the hit is not represented among the 10 most recent triggers, and the
\* trigger it inserts is a new news trigger of the scanned account with the
\* hit's link and no person.
C25_AccountDedupRule ==
  [][LET pc == scanPc["accounts"]
         k == scanHit["accounts"]
     IN  /\ (/\ pc = "check"
             /\ k <= Len(scanHits["accounts"])
             /\ \/ scanPc'["accounts"] = "create"
                \/ scanPc'["accounts"] = "check" /\ scanHit'["accounts"] = k + 1)
              => (scanPc'["accounts"] = "create"
                    <=> ~Represented(CurHit("accounts"), CurSubject("accounts")))
         /\ (pc = "create" /\ scanPc'["accounts"] = "check")
              => /\ Len(triggers') = Len(triggers) + 1
                 /\ SubSeq(triggers', 1, Len(triggers)) = triggers
                 /\ LET t == triggers'[Len(triggers')]
                    IN  /\ t.triggerType = "news"
                        /\ t.status = "new"
                        /\ t.accountId = CurSubject("accounts")
                        /\ t.personId = Null
                        /\ t.url = CurHit("accounts").link
                        /\ Includes(ContentOf(t), CurHit("accounts").title)]_vars

\* the scan of account 1 has inserted a trigger for its first hit and passed
\* over the repost of it, which the content rule finds
C25_Witness ==
  /\ scanPc["accounts"] = "check"
  /\ scanList["accounts"] # <<>>
  /\ scanSubj["accounts"] <= Len(scanList["accounts"])
  /\ CurSubject("accounts") = 1
  /\ scanHits["accounts"] = <<Hit(1), Repost(1, 2)>>
  /\ scanHit["accounts"] = 3
  /\ Cardinality({t \in DOMAIN triggers : triggers[t].accountId = 1
                                            /\ triggers[t].personId = Null}) = 1
  /\ \A t \in DOMAIN triggers : triggers[t].url # Link(2)

\* C26: a message that reaches status to_send, whatever its media, goes on
\* to status sent or failed.
C26_ToSendIsSettled ==
  \A i \in 1..MaxMessages :
    (i \in DOMAIN messages /\ messages[i].status = "to_send")
      ~> (i \in DOMAIN messages /\ messages[i].status \in {"sent", "failed"})

\* C27: no message is handed to the mail transport twice.
C27_DeliveredAtMostOnce ==
  \A j, k \in DOMAIN delivered : j # k => delivered[j] # delivered[k]

\* C28: once the transport has accepted a message and sendEmail is over,
\* the stored status of the message is sent.
C28_AcceptedIsSent ==
  mailPc[1] \in {"idle", "loop"} =>
    \A k \in DOMAIN delivered : messages[delivered[k]].status = "sent"

\* C29: a run of the Trigger Processor that reaches a trigger of its list
\* whose status has been changed to ignored since the list was fetched does
\* not go on to draft a message for it (and so does not set it to handled).
C29_IgnoredIsNotDrafted ==
  [][(brainPc[1] = "loop" /\ brainPc'[1] = "create")
       => triggers[CurTrigger(1)].status # "ignored"]_vars

\* C30: every message the Trigger Processor has created holds as address
\* the person's channel that matches its stored media, and a message whose
\* address is the person's email has media exactly "email", the one value
\* sendPendingEmails selects.
C30_EmailAddressHasEmailMedia ==
  \A i \in DOMAIN messages :
    messages[i].triggerId # Null =>
      LET person == people[messages[i].personId]
      IN  /\ messages[i].address = MatchingChannel(messages[i].media, person)
          /\ messages[i].address = person.email => messages[i].media = "email"

====
